---- MODULE Spec2Model ----
(***************************************************************************)
(* waveshareFontGenerator: a batch converter from a vector font to a C     *)
(* bitmap font table.  The repository holds two variants of main():        *)
(*   "metrics"  - src/main.go: cell height and origin derived from the     *)
(*                font metrics (--reducedHeight);                          *)
(*   "explicit" - src/unnamed/part_000: cell height and origin given by    *)
(*                flags (--height, --xoffset, --yoffset, --debug).         *)
(* The model runs one of them per behaviour.  The command line, the file   *)
(* system and the font backend (sfnt) / rasterizer (vector) are the        *)
(* environment: their answers are drawn from small sets.                   *)
(***************************************************************************)
EXTENDS Integers, Sequences, FiniteSets, TLC

VARIABLES
    variant,   \* which main() runs: "metrics" or "explicit"
    pc,        \* position of main()
    conf,      \* the parsed flags (var conf)
    font,      \* what the parsed font f answers to the backend calls
    i,         \* loop variable of "for i := 32; i <= 126; i++"
    x,         \* glyph index returned by f.GlyphIndex
    width,     \* local width  (pixels)
    height,    \* local height (rows)
    widthP,    \* main.go only: var widthP int
    heightP,   \* main.go only: var heightP int
    dst,       \* the *image.Alpha of the current glyph: dst[y][x] in 0..255
    stdout,    \* the writes to standard output, in order
    stderr,    \* the writes of package log, in order
    exit       \* process exit status, -1 while the process runs

vars == <<variant, pc, conf, font, i, x, width, height, widthP, heightP,
          dst, stdout, stderr, exit>>

-----------------------------------------------------------------------------
(* Bounds of the model *)

\* largest --width (bytes) tried
MaxWidth == 2
\* largest --height (rows) tried by the explicit variant
MaxHeight == 2
\* largest --reducedHeight tried by the metrics variant
MaxReduce == 2
\* largest metric height (Metrics().Height.Ceil()) a font reports
MaxMetricHeight == 3

(* Program constants *)

\* for i := 32; ...
FirstChar == 32
\* ...; i <= 126; ...
LastChar == 126
\* if a < 64
Threshold == 64

Variants == {"metrics", "explicit"}

-----------------------------------------------------------------------------
(* Go arithmetic *)

\* Go's integer division truncates toward zero (b > 0 here)
GoDiv(a, b) == IF a >= 0 THEN a \div b ELSE -((-a) \div b)

RECURSIVE Pow2(_)
Pow2(n) == IF n = 0 THEN 1 ELSE 2 * Pow2(n - 1)

-----------------------------------------------------------------------------
(* The flags *)

\* The values tried: widths of 1 byte and more, heights and reductions from
\* -1 on (the flags are Go ints; a cell height below 0 also comes from a
\* reduction larger than the metric height).

\* var conf of src/unnamed/part_000 (it has no ReduceHeight: kept at zero).
\* PPEM, Xoffset and Yoffset only reach the font backend and the rasterizer,
\* whose answers are drawn below.
ConfExplicit ==
    [Width : 1..MaxWidth, Height : -1..MaxHeight, ReduceHeight : {0},
     Debug : BOOLEAN]

\* var conf of src/main.go (it has no Height and no Debug: kept at zero)
ConfMetrics ==
    [Width : 1..MaxWidth, Height : {0}, ReduceHeight : -1..MaxReduce,
     Debug : {FALSE}]

Configs(v) == IF v = "explicit" THEN ConfExplicit ELSE ConfMetrics

\* the zero value of conf before parser.Parse()
ConfZero == [Width |-> 0, Height |-> 0, ReduceHeight |-> 0, Debug |-> FALSE]

-----------------------------------------------------------------------------
(* The font backend (sfnt) as the program sees it *)

Chars == FirstChar..LastChar

\* the segment kinds of sfnt (SegmentOp is a uint32: "Other" stands for any
\* value that is none of the four named ones)
SegmentOps == {"MoveTo", "LineTo", "QuadTo", "CubeTo", "Other"}

NoFault ==
    [missing |-> {}, indexErr |-> {}, loadErr |-> {}, badOp |-> {},
     metricsErr |-> FALSE]

\* what can be wrong with a font that sfnt.Parse accepted: codepoints with
\* no glyph (index 0), codepoints whose lookup or load fails, glyphs whose
\* outline holds a segment of another kind, failing metrics
FaultProfiles ==
    { NoFault,
      [NoFault EXCEPT !.missing = {FirstChar}],
      [NoFault EXCEPT !.missing = {100}],
      [NoFault EXCEPT !.missing = {LastChar}],
      [NoFault EXCEPT !.badOp = {65}],
      [NoFault EXCEPT !.badOp = {65}, !.missing = {100}],
      [NoFault EXCEPT !.loadErr = {40}],
      [NoFault EXCEPT !.indexErr = {40}],
      [NoFault EXCEPT !.metricsErr = TRUE] }

\* the values of Metrics().Height.Ceil() tried (negative for a negative ppem)
MetricHeights == -1..MaxMetricHeight

\* the fonts tried.  The explicit variant only logs the metrics (--debug),
\* so one metric height is enough for it.
Fonts(v) ==
    { [parsed |-> TRUE, faults |-> p, H |-> h] :
        p \in FaultProfiles,
        h \in IF v = "metrics" THEN MetricHeights ELSE {MaxMetricHeight} }

\* f before sfnt.Parse returned a font
FontNone == [parsed |-> FALSE, faults |-> NoFault, H |-> 0]

\* f.GlyphIndex(&b, v): an error, or the glyph index (0: no glyph for v)
GlyphIndex(f, v) ==
    [err |-> v \in f.faults.indexErr,
     x   |-> IF v \in f.faults.missing THEN 0 ELSE v - FirstChar + 1]

\* f.Metrics(&b, fixed.I(conf.PPEM), font.HintingFull): an error, or the
\* metrics; HeightCeil is i.Height.Ceil()
Metrics(f) == [err |-> f.faults.metricsErr, HeightCeil |-> f.H]

\* the outline of glyph g: the space has none; Args stands for the control
\* points of the segment, which are the glyph's own
Outline(f, g) ==
    LET c == g + FirstChar - 1
        seg(op) == [Op |-> op, Args |-> g]
    IN  IF c = FirstChar THEN << >>
        ELSE IF c \in f.faults.badOp
             THEN <<seg("MoveTo"), seg("LineTo"), seg("Other"),
                    seg("QuadTo"), seg("CubeTo")>>
             ELSE <<seg("MoveTo"), seg("LineTo"), seg("QuadTo"),
                    seg("CubeTo")>>

\* f.LoadGlyph(&b, x, fixed.I(conf.PPEM), nil): an error, or the segments
LoadGlyph(f, g) ==
    [err      |-> (g + FirstChar - 1) \in f.faults.loadErr,
     segments |-> Outline(f, g)]

-----------------------------------------------------------------------------
(* The rasterizer (vector) and the image (image.Alpha) *)

\* vector.NewRasterizer(width, height) allocates width*height samples: a
\* negative product is a negative slice length, a run-time panic
NewRasterizerPanics(w, h) == w * h < 0

\* r := vector.NewRasterizer(width, height); r.DrawOp = draw.Src
NewRasterizer(w, h) == [size |-> <<w, h>>, DrawOp |-> "Src", path |-> << >>]

\* r.MoveTo / r.LineTo / r.QuadTo / r.CubeTo: the path grows by the segment
AddPath(r, seg) == [r EXCEPT !.path = Append(@, seg)]

\* the switch on seg.Op, for the segments from k on.  The explicit variant
\* ends the run at a segment of another kind (default: log.Fatal); the
\* metrics variant has no default case, the segment adds nothing.
RECURSIVE DrawSegments(_, _, _, _)
DrawSegments(v, segments, k, r) ==
    IF k > Len(segments) THEN [fatal |-> FALSE, r |-> r]
    ELSE IF segments[k].Op \in {"MoveTo", "LineTo", "QuadTo", "CubeTo"}
         THEN DrawSegments(v, segments, k + 1, AddPath(r, segments[k]))
         ELSE IF v = "explicit"
              THEN [fatal |-> TRUE, r |-> r]
              ELSE DrawSegments(v, segments, k + 1, r)

\* the 8-bit coverage the rasterizer computes for the outline of glyph g at
\* pixel (px, py): glyphs of even index are a bar (the leftmost 8 pixels at
\* or above the threshold, the others below it), the others step through
\* the values around the threshold
Alpha(g, px, py) ==
    IF g % 2 = 0
    THEN IF px < 8
         THEN (IF (px + py) % 2 = 0 THEN Threshold ELSE 255)
         ELSE (IF px % 2 = 0 THEN 0 ELSE Threshold - 1)
    ELSE <<0, Threshold - 1, Threshold, 255>>[((g + px + 3 * py) % 4) + 1]

\* coverage of the rasterizer's path: nothing drawn, nothing covered
Coverage(r, px, py) ==
    IF r.path = << >> THEN 0 ELSE Alpha(r.path[1].Args, px, py)

\* image.Rect(0, 0, w, h) is canonical: it swaps a negative bound with 0
RectPoints(w, h) ==
    { <<px, py>> : px \in (IF w >= 0 THEN 0..(w - 1) ELSE w..(-1)),
                   py \in (IF h >= 0 THEN 0..(h - 1) ELSE h..(-1)) }

\* dst := image.NewAlpha(image.Rect(0, 0, width, height));
\* r.Draw(dst, dst.Bounds(), image.Opaque, image.Point{})
Draw(r, w, h) ==
    [p \in RectPoints(w, h) |->
        IF p[1] >= 0 /\ p[2] >= 0 THEN Coverage(r, p[1], p[2]) ELSE 0]

\* dst.AlphaAt(x, y).A
AlphaAt(img, px, py) == img[<<px, py>>]

-----------------------------------------------------------------------------
(* bitio.Writer over a bytes.Buffer *)

\* bitio.NewWriter(b): an empty cache with 8 free bits
NewWriter == [cache |-> 0, bits |-> 8, out |-> << >>]

\* mutant of WriteBit: the bits fill the cache from the least significant end
WriteBitLSB(w, r) ==
    LET bits  == w.bits - 1
        cache == w.cache + r * Pow2(7 - bits)
    IN  IF bits = 0
        THEN [cache |-> 0, bits |-> 8, out |-> Append(w.out, cache)]
        ELSE [cache |-> cache, bits |-> bits, out |-> w.out]

\* w.WriteBits(r, 1): the bit goes below the bits already cached; a full
\* cache is written out
WriteBit(w, r) ==
    LET bits  == w.bits - 1
        cache == w.cache + r * Pow2(bits)
    IN  IF bits = 0
        THEN [cache |-> 0, bits |-> 8, out |-> Append(w.out, cache)]
        ELSE [cache |-> cache, bits |-> bits, out |-> w.out]

\* mutant of CloseWriter: the cache is written out even when it is empty
CloseWriterAlways(w) ==
    [cache |-> 0, bits |-> 8, out |-> Append(w.out, w.cache)]

\* w.Close(): a partly filled cache is written out, zero padded
CloseWriter(w) ==
    IF w.bits # 8
    THEN [cache |-> 0, bits |-> 8, out |-> Append(w.out, w.cache)]
    ELSE w

-----------------------------------------------------------------------------
(* Formatting *)

HexDigits == <<"0", "1", "2", "3", "4", "5", "6", "7",
               "8", "9", "A", "B", "C", "D", "E", "F">>

\* fmt.Printf("0x%.2X, ", o) for a byte o: its two upper-case hex digits
HexByte(o) == <<HexDigits[(o \div 16) + 1], HexDigits[(o % 16) + 1]>>

\* mutant of PixelBit: the comparison is a <= 64
PixelBitAbove(a) == IF a <= Threshold THEN 0 ELSE 1

\* if a < 64 { bit 0, "." } else { bit 1, "#" }
PixelBit(a) == IF a < Threshold THEN 0 ELSE 1

PixelChar(a) == IF a < Threshold THEN "." ELSE "#"

\* for x := 0; x < width; x++ { ... }: the writer and the comment after the
\* pixels from px on
RECURSIVE RowLoop(_, _, _, _, _, _)
RowLoop(img, py, px, w, bw, tmp) ==
    IF px >= w THEN [bw |-> bw, tmp |-> tmp]
    ELSE LET a == AlphaAt(img, px, py)
         IN  RowLoop(img, py, px + 1, w,
                     WriteBit(bw, PixelBit(a)), Append(tmp, PixelChar(a)))

MapHex(bs) == [k \in 1..Len(bs) |-> HexByte(bs[k])]

\* one write to standard output
Line(t, cp, bytes, comment, w, h) ==
    [t |-> t, cp |-> cp, bytes |-> bytes, comment |-> comment,
     w |-> w, h |-> h]

\* the body of "for y := 0; y < height; y++": the row's line
RowLine(img, py, w) ==
    LET done == RowLoop(img, py, 0, w, NewWriter, << >>)
        b    == CloseWriter(done.bw).out
    IN  Line("row", 0, MapHex(b), done.tmp, 0, 0)

\* the rows from py on
RECURSIVE RowLines(_, _, _, _)
RowLines(img, py, w, h) ==
    IF py >= h THEN << >>
    ELSE <<RowLine(img, py, w)>> \o RowLines(img, py + 1, w, h)

\* fmt.Printf("  // %c %d\n", v, v)
GlyphLine(v) == Line("glyph", v, << >>, << >>, 0, 0)

\* fmt.Println(`#include "fonts.h" ... const uint8_t FontCustom_Table ...`)
PreambleLine == Line("preamble", 0, << >>, << >>, 0, 0)

\* fmt.Printf(`};`)
CloseLine == Line("close", 0, << >>, << >>, 0, 0)

\* fmt.Printf("\n\n/* Based on font %s */\n", string(conf.Font))
BasedOnLine == Line("based", 0, << >>, << >>, 0, 0)

\* fmt.Printf(`sFONT FontCustom = { FontCustom_Table, %d, %d, };`, w, h)
DescriptorLine(w, h) == Line("descriptor", 0, << >>, << >>, w, h)

-----------------------------------------------------------------------------
(* main() *)

\* mutant of CellHeight: the comparison is conf.ReduceHeight > 0
CellHeightStrict(H, reduce) ==
    IF reduce > 0 THEN H - reduce ELSE GoDiv(H * 3, 4) + 1

\* height := i.Height.Ceil(); if conf.ReduceHeight >= 0 { height -=
\* conf.ReduceHeight } else { height = height * 3 / 4; height += 1 }
CellHeight(H, reduce) ==
    IF reduce >= 0 THEN H - reduce ELSE GoDiv(H * 3, 4) + 1

\* mutant of PixelWidth: the width in bytes is taken for the pixel width
PixelWidthBytes(c) == c.Width

\* width := conf.Width * 8
PixelWidth(c) == c.Width * 8

\* the two %d of the descriptor: width, height in the explicit variant,
\* widthP, heightP in the metrics variant
DescriptorArgs(v, w, h, wP, hP) ==
    IF v = "explicit" THEN <<w, h>> ELSE <<wP, hP>>

Init ==
    /\ variant \in Variants
    /\ pc = "flags"
    /\ conf = ConfZero
    /\ font = FontNone
    /\ i = 0
    /\ x = 0
    /\ width = 0
    /\ height = 0
    /\ widthP = 0
    /\ heightP = 0
    /\ dst = << >>
    /\ stdout = << >>
    /\ stderr = << >>
    /\ exit = -1

\* mutant of Log: the messages are printed on standard output (fmt)
LogToStdout(msgs) ==
    /\ stdout' = stdout \o [k \in 1..Len(msgs) |->
                               [t |-> msgs[k], cp |-> 0, bytes |-> << >>,
                                comment |-> << >>, w |-> 0, h |-> 0]]
    /\ stderr' = stderr

\* package log writes its messages to standard error
Log(msgs) ==
    /\ stderr' = stderr \o msgs
    /\ stdout' = stdout

\* the process ends with this status
Exit(status) ==
    /\ pc' = "exited"
    /\ exit' = status

\* log.Fatal / log.Fatalf: the message, then os.Exit(1)
Fatal(msg) == Log(<<msg>>) /\ Exit(1)

\* mutant of LoopContinues: the last codepoint is left out (i < 126)
LoopContinuesShort(c) == c < LastChar

\* the loop's condition, i <= 126
LoopContinues(c) == c <= LastChar

\* mutant of NoGlyph: the check of the glyph index is dropped
NoGlyphNever(g) == FALSE

\* if x == 0 { log.Fatalf(...) }
NoGlyph(g) == g = 0

\* parser.Parse() returns ErrHelp: the parser has printed the usage (to
\* standard output or to standard error, by the version of go-flags) and
\* main calls os.Exit(0)
FlagsHelp ==
    /\ pc = "flags"
    /\ \E toStdout \in BOOLEAN :
         /\ stdout' = IF toStdout
                      THEN Append(stdout, Line("usage", 0, << >>, << >>, 0, 0))
                      ELSE stdout
         /\ Exit(0)
         /\ stderr' = IF toStdout THEN stderr ELSE Append(stderr, "usage")
    /\ UNCHANGED <<variant, conf, font, i, x, width, height, widthP, heightP,
                   dst>>

\* parser.Parse() returns another error: os.Exit(1)
FlagsError ==
    /\ pc = "flags"
    /\ stderr' = Append(stderr, "flags")
    /\ Exit(1)
    /\ UNCHANGED <<variant, conf, font, i, x, width, height, widthP, heightP,
                   dst, stdout>>

\* parser.Parse() succeeds but leaves positional arguments: log.Fatal
ExtraArgs ==
    /\ pc = "flags"
    /\ \E c \in Configs(variant) : conf' = c
    /\ Fatal("do not provide additional parameters")
    /\ UNCHANGED <<variant, font, i, x, width, height, widthP, heightP, dst>>

\* parser.Parse() succeeds, len(args) = 0
FlagsOK ==
    /\ pc = "flags"
    /\ \E c \in Configs(variant) : conf' = c
    /\ pc' = "read"
    /\ UNCHANGED <<variant, font, i, x, width, height, widthP, heightP,
                   dst, stdout, stderr, exit>>

\* ioutil.ReadFile fails: log.Println(err); return
ReadFileErr ==
    /\ pc = "read"
    /\ Log(<<"read error">>)
    /\ Exit(0)
    /\ UNCHANGED <<variant, conf, font, i, x, width, height, widthP, heightP,
                   dst>>

ReadFileOK ==
    /\ pc = "read"
    /\ pc' = "parse"
    /\ UNCHANGED <<variant, conf, font, i, x, width, height, widthP, heightP,
                   dst, stdout, stderr, exit>>

\* sfnt.Parse fails: log.Fatalf("Parse: %v", err)
ParseErr ==
    /\ pc = "parse"
    /\ Fatal("Parse")
    /\ UNCHANGED <<variant, conf, font, i, x, width, height, widthP, heightP,
                   dst>>

ParseOK ==
    /\ pc = "parse"
    /\ \E f \in Fonts(variant) : font' = f
    /\ pc' = IF variant = "explicit" THEN "debug" ELSE "preamble"
    /\ UNCHANGED <<variant, conf, i, x, width, height, widthP, heightP,
                   dst, stdout, stderr, exit>>

\* if conf.Debug { ... }: the metrics and the draw window go to the log;
\* failing metrics are fatal
DebugInfo ==
    /\ pc = "debug"
    /\ IF conf.Debug /\ Metrics(font).err
       THEN Fatal("could not get font metrics")
       ELSE /\ pc' = "preamble"
            /\ Log(IF conf.Debug
                   THEN <<"font metrics:", "draw window:">>
                   ELSE << >>)
            /\ UNCHANGED exit
    /\ UNCHANGED <<variant, conf, font, i, x, width, height, widthP, heightP,
                   dst>>

\* fmt.Println(`#include "fonts.h" ...`), the declarations before the loop
\* and the loop's "i := 32"
PrintPreamble ==
    /\ pc = "preamble"
    /\ stdout' = Append(stdout, PreambleLine)
    /\ IF variant = "explicit"
       THEN width' = PixelWidth(conf) /\ height' = conf.Height
       ELSE UNCHANGED <<width, height>>
    /\ i' = FirstChar
    /\ pc' = "loop"
    /\ UNCHANGED <<variant, conf, font, x, widthP, heightP, dst, stderr, exit>>

\* i <= 126: x, err := f.GlyphIndex(&b, v) and its two fatal checks
GlyphIndexStep ==
    /\ pc = "loop"
    /\ LoopContinues(i)
    /\ LET g == GlyphIndex(font, i)
       IN  IF g.err
           THEN Fatal("GlyphIndex") /\ UNCHANGED x
           ELSE IF NoGlyph(g.x)
                THEN Fatal("GlyphIndex: no glyph index found") /\ x' = g.x
                ELSE /\ x' = g.x
                     /\ pc' = IF variant = "metrics" THEN "metrics" ELSE "load"
                     /\ UNCHANGED <<stdout, stderr, exit>>
    /\ UNCHANGED <<variant, conf, font, i, width, height, widthP, heightP,
                   dst>>

\* src/main.go: f.Metrics and the cell computed from it
MetricsStep ==
    /\ pc = "metrics"
    /\ LET m == Metrics(font)
       IN  IF m.err
           THEN /\ Fatal("could not get font metrics")
                /\ UNCHANGED <<width, height, widthP, heightP>>
           ELSE /\ width' = PixelWidth(conf)
                /\ height' = CellHeight(m.HeightCeil, conf.ReduceHeight)
                /\ widthP' = width'
                /\ heightP' = height'
                /\ pc' = "load"
                /\ UNCHANGED <<stdout, stderr, exit>>
    /\ UNCHANGED <<variant, conf, font, i, x, dst>>

\* f.LoadGlyph, vector.NewRasterizer, the loop over the segments,
\* image.NewAlpha and r.Draw
LoadGlyphStep ==
    /\ pc = "load"
    /\ LET l == LoadGlyph(font, x)
           d == DrawSegments(variant, l.segments, 1,
                             NewRasterizer(width, height))
       IN  IF l.err
           THEN Fatal("LoadGlyph") /\ UNCHANGED dst
           ELSE IF NewRasterizerPanics(width, height)
                THEN /\ stderr' = Append(stderr, "panic")
                     /\ Exit(2)
                     /\ UNCHANGED <<dst, stdout>>
                ELSE IF d.fatal
                     THEN Fatal("OP") /\ UNCHANGED dst
                     ELSE /\ dst' = Draw(d.r, width, height)
                          /\ pc' = "emit"
                          /\ UNCHANGED <<stdout, stderr, exit>>
    /\ UNCHANGED <<variant, conf, font, i, x, width, height, widthP, heightP>>

\* the glyph's comment line, its rows, and the loop's i++
EmitGlyph ==
    /\ pc = "emit"
    /\ stdout' = stdout \o <<GlyphLine(i)>> \o RowLines(dst, 0, width, height)
    /\ i' = i + 1
    /\ pc' = "loop"
    /\ UNCHANGED <<variant, conf, font, x, width, height, widthP, heightP,
                   dst, stderr, exit>>

\* i > 126: the table's close, the font's name and the descriptor; main
\* returns
Finish ==
    /\ pc = "loop"
    /\ ~LoopContinues(i)
    /\ LET a == DescriptorArgs(variant, width, height, widthP, heightP)
       IN  stdout' = stdout \o
                <<CloseLine, BasedOnLine, DescriptorLine(a[1], a[2])>>
    /\ Exit(0)
    /\ UNCHANGED <<variant, conf, font, i, x, width, height, widthP, heightP,
                   dst, stderr>>

Next ==
    \/ FlagsHelp
    \/ FlagsError
    \/ ExtraArgs
    \/ FlagsOK
    \/ ReadFileErr
    \/ ReadFileOK
    \/ ParseErr
    \/ ParseOK
    \/ DebugInfo
    \/ PrintPreamble
    \/ GlyphIndexStep
    \/ MetricsStep
    \/ LoadGlyphStep
    \/ EmitGlyph
    \/ Finish

Spec == Init /\ [][Next]_vars

TypeOK ==
    /\ variant \in Variants
    /\ pc \in {"flags", "read", "parse", "debug", "preamble", "loop",
               "metrics", "load", "emit", "exited"}
    /\ exit \in {-1, 0, 1, 2}
    /\ (pc = "exited") = (exit # -1)
    /\ i \in {0} \cup FirstChar..(LastChar + 1)

-----------------------------------------------------------------------------
(* Reading the output back *)

NChars == LastChar - FirstChar + 1

Lines == 1..Len(stdout)

Tail3 == {"close", "based", "descriptor"}

\* the run wrote the descriptor and returned
Succeeded ==
    /\ pc = "exited"
    /\ stdout # << >>
    /\ stdout[Len(stdout)].t = "descriptor"

\* the usage was printed (help requested)
HelpRequested ==
    \/ \E k \in Lines : stdout[k].t = "usage"
    \/ \E k \in 1..Len(stderr) : stderr[k] = "usage"

\* the last message on standard error ("" when there is none)
LastLog == IF stderr = << >> THEN "" ELSE stderr[Len(stderr)]

\* the number of row lines that follow line k directly
RECURSIVE RowsAfter(_)
RowsAfter(k) ==
    IF k + 1 <= Len(stdout) /\ stdout[k + 1].t = "row"
    THEN 1 + RowsAfter(k + 1)
    ELSE 0

\* value of a formatted byte
HexVal(d) == CHOOSE n \in 0..15 : HexDigits[n + 1] = d

ByteVal(hx) == 16 * HexVal(hx[1]) + HexVal(hx[2])

\* bit px of a row of formatted bytes, the most significant bit of the
\* first byte being bit 0
BitOf(bytes, px) ==
    (ByteVal(bytes[(px \div 8) + 1]) \div Pow2(7 - (px % 8))) % 2

\* the cell height of the run as the flags and the font give it
ExpectedHeight ==
    IF variant = "explicit" THEN conf.Height
    ELSE IF conf.ReduceHeight >= 0 THEN font.H - conf.ReduceHeight
         ELSE (IF font.H >= 0 THEN (3 * font.H) \div 4
                              ELSE -((-3 * font.H) \div 4)) + 1

\* the whole output of a complete run with h rows per glyph: the preamble,
\* 95 blocks in ascending order of codepoint, each a header and h rows,
\* then the close, the font's name and the descriptor
FullOutput(h) ==
    /\ Len(stdout) = 1 + NChars * (1 + h) + 3
    /\ stdout[1].t = "preamble"
    /\ \A j \in 0..(NChars - 1) :
         LET k == 2 + j * (1 + h)
         IN  /\ stdout[k].t = "glyph"
             /\ stdout[k].cp = FirstChar + j
             /\ \A r \in 1..h : stdout[k + r].t = "row"
    /\ stdout[Len(stdout) - 2].t = "close"
    /\ stdout[Len(stdout) - 1].t = "based"
    /\ stdout[Len(stdout)].t = "descriptor"

\* the close and the descriptor come after the block of codepoint 126
TailAfterLast ==
    \A k \in Lines :
        stdout[k].t \in Tail3 =>
            \E k2 \in 1..(k - 1) :
                stdout[k2].t = "glyph" /\ stdout[k2].cp = LastChar

\* every lookup, load and metrics call of the font succeeds and every
\* codepoint has a glyph
FontLoads ==
    /\ font.parsed
    /\ font.faults.missing = {}
    /\ font.faults.indexErr = {}
    /\ font.faults.loadErr = {}
    /\ ~font.faults.metricsErr

-----------------------------------------------------------------------------
(* C1 *)

\* C1 as stated: whatever the configuration, a run over a font whose
\* codepoints 32..126 all map to a glyph and load without error ends having
\* written exactly 95 blocks, in ascending order 32..126, each of exactly
\* `height` rows, the close and the descriptor after the block of 126.
C1_Original ==
    (pc = "exited" /\ FontLoads) => (exit = 0 /\ FullOutput(height))

\* C1 amended: the same, for the configurations whose cell has a positive
\* width and a height that is not negative and, in the explicit variant, the
\* fonts whose outlines hold only MoveTo, LineTo, QuadTo and CubeTo segments.
C1_FullRange ==
    /\ TailAfterLast
    /\ ( /\ pc = "exited"
         /\ FontLoads
         /\ conf.Width >= 1
         /\ ExpectedHeight >= 0
         /\ (variant = "explicit" => font.faults.badOp = {}) )
       => (exit = 0 /\ height = ExpectedHeight /\ FullOutput(height))

\* a complete run with rows: 95 blocks of 2 rows
C1_Witness ==
    /\ Succeeded
    /\ FontLoads
    /\ height = 2
    /\ conf.Width = 2
    /\ Cardinality({k \in Lines : stdout[k].t = "glyph"}) = NChars

-----------------------------------------------------------------------------
(* C2 *)

\* C2: if codepoint c has no glyph (index 0), the run never gets past c: no
\* header or row of c or of a later codepoint is written, nor the close or
\* the descriptor; what is written are whole blocks of codepoints below c,
\* in ascending order from 32; and the run that reaches c ends there with
\* status 1.
C2_MissingGlyphFatal ==
    \A c \in font.faults.missing :
        /\ i <= c
        /\ \A k \in Lines :
             /\ stdout[k].t \notin Tail3
             /\ stdout[k].t = "glyph" => stdout[k].cp < c
             /\ stdout[k].t = "row" => k > 2
        /\ \A k \in Lines :
             stdout[k].t = "glyph" =>
                /\ stdout[k].cp = FirstChar +
                      Cardinality({k2 \in 1..(k - 1) : stdout[k2].t = "glyph"})
                /\ (k + RowsAfter(k) < Len(stdout) \/ pc \in {"loop", "exited"})
                      => RowsAfter(k) = (IF height >= 0 THEN height ELSE 0)
        /\ (pc = "exited" /\ i = c) => (exit = 1 /\ x = 0)

\* the run stopped at the missing 'd' after the blocks of 32..99
C2_Witness ==
    /\ pc = "exited"
    /\ font.faults.missing = {100}
    /\ i = 100
    /\ exit = 1
    /\ Cardinality({k \in Lines : stdout[k].t = "glyph"}) = 100 - FirstChar
    /\ height > 0

-----------------------------------------------------------------------------
(* C3 *)

\* C3: the exit status is 0 exactly when the run succeeded or help was
\* requested, and it is 1 after a flag-parse error, a font file that cannot
\* be read, a malformed font, a missing glyph and an unsupported segment.
C3_ExitStatus ==
    pc = "exited" =>
        /\ (exit = 0) = (Succeeded \/ HelpRequested)
        /\ LastLog \in {"flags", "read error", "Parse",
                        "GlyphIndex: no glyph index found", "OP"}
              => exit = 1

-----------------------------------------------------------------------------
(* C4 *)

\* C4: in both variants, a glyph whose outline holds a segment that is none
\* of MoveTo, LineTo, QuadTo, CubeTo ends the run: no block of that glyph or
\* of a later codepoint is written, nor the close or the descriptor.
C4_UnsupportedFatal ==
    \A c \in font.faults.badOp :
        \A k \in Lines :
            /\ stdout[k].t \notin Tail3
            /\ stdout[k].t = "glyph" => stdout[k].cp < c

-----------------------------------------------------------------------------
(* C5 *)

-----------------------------------------------------------------------------
(* C6 *)

\* C6: a run that ends with a flag-parse error, with extra positional
\* arguments, with an unreadable font file or with a font that does not
\* parse has written nothing to standard output; the first write of the
\* program happens only after the font was parsed.
C6_NoOutputBeforeParse ==
    /\ (stdout # << >> /\ stdout[1].t # "usage") => font.parsed
    /\ ( /\ pc = "exited"
         /\ LastLog \in {"flags", "do not provide additional parameters",
                         "read error", "Parse"} )
       => stdout = << >>

\* the font file could not be read: the error is logged, nothing is written
C6_Witness ==
    /\ pc = "exited"
    /\ stderr = <<"read error">>
    /\ stdout = << >>
    /\ ~font.parsed

-----------------------------------------------------------------------------
(* C7, C8: the block just written against the image it was packed from *)

\* a glyph's block has just been written: dst is still its image and its
\* rows are the last lines of the output
BlockWritten == pc = "loop" /\ i > FirstChar

RowsWritten == IF height >= 0 THEN height ELSE 0

\* the line of row py of the block just written
RowOf(py) == stdout[Len(stdout) - RowsWritten + 1 + py]

\* C7: for every pixel of the cell, coverage 0..63 gives bit 0 and '.',
\* coverage 64..255 gives bit 1 and '#'.
C7_Threshold ==
    BlockWritten =>
        \A py \in 0..(height - 1) : \A px \in 0..(width - 1) :
            LET a    == dst[<<px, py>>]
                line == RowOf(py)
            IN  /\ a \in 0..255
                /\ a \in 0..63 =>
                     BitOf(line.bytes, px) = 0 /\ line.comment[px + 1] = "."
                /\ a \in 64..255 =>
                     BitOf(line.bytes, px) = 1 /\ line.comment[px + 1] = "#"

\* a block whose image holds both a 63, packed to 0, and a 64, packed to 1
C7_Witness ==
    /\ BlockWritten
    /\ height > 0
    /\ \E px \in 0..(width - 1) :
         dst[<<px, 0>>] = 63 /\ BitOf(RowOf(0).bytes, px) = 0
    /\ \E px \in 0..(width - 1) :
         dst[<<px, 0>>] = 64 /\ BitOf(RowOf(0).bytes, px) = 1

\* the thresholded pixel p of row py (0 beyond the cell)
ThresholdedBit(py, p) ==
    IF p < width /\ dst[<<p, py>>] >= 64 THEN 1 ELSE 0

\* sum over j..7 of b[8k+j] * 2^(7-j)
RECURSIVE GroupValue(_, _, _)
GroupValue(py, k, j) ==
    IF j > 7 THEN 0
    ELSE ThresholdedBit(py, 8 * k + j) * Pow2(7 - j) + GroupValue(py, k, j + 1)

\* the leftmost 8 pixels of row py are set and all others are clear
LeftBar(py) ==
    /\ width >= 8
    /\ \A p \in 0..(width - 1) : ThresholdedBit(py, p) = (IF p < 8 THEN 1 ELSE 0)

\* C8: byte k of a row is the sum over j in 0..7 of b[8k+j] * 2^(7-j), the
\* bytes are in left-to-right order, character j of the comment is '#'
\* exactly when bit j of the packed row is 1, and a row whose leftmost 8
\* pixels alone are set is 0xFF followed by 0x00 bytes only.
C8_BitOrder ==
    BlockWritten =>
        \A py \in 0..(height - 1) :
            LET line == RowOf(py)
            IN  /\ line.t = "row"
                /\ \A k \in 0..(Len(line.bytes) - 1) :
                     ByteVal(line.bytes[k + 1]) = GroupValue(py, k, 0)
                /\ Len(line.comment) = width
                /\ 8 * Len(line.bytes) >= width
                /\ \A j \in 0..(width - 1) :
                     (line.comment[j + 1] = "#") = (BitOf(line.bytes, j) = 1)
                /\ LeftBar(py) =>
                     \A k \in 1..Len(line.bytes) :
                        line.bytes[k] = (IF k = 1 THEN <<"F", "F">>
                                                  ELSE <<"0", "0">>)

\* a 16 pixel row whose leftmost 8 pixels alone are set, written 0xFF, 0x00
C8_Witness ==
    /\ BlockWritten
    /\ height > 0
    /\ width = 16
    /\ LeftBar(0)
    /\ RowOf(0).bytes = << <<"F", "F">>, <<"0", "0">> >>

-----------------------------------------------------------------------------
(* C9 *)

\* C9: every row line of every glyph holds exactly ceil(W / 8) hex bytes,
\* W = 8 * the configured width, whatever the coverage.
C9_RowBytes ==
    \A k \in Lines :
        stdout[k].t = "row" =>
            LET n == Len(stdout[k].bytes)
                W == 8 * conf.Width
            IN  8 * n >= W /\ 8 * (n - 1) < W

\* a complete run of 2-byte rows, of which two differ in content
C9_Witness ==
    /\ Succeeded
    /\ conf.Width = 2
    /\ \E k1, k2 \in Lines :
         /\ stdout[k1].t = "row"
         /\ stdout[k2].t = "row"
         /\ stdout[k1].bytes # stdout[k2].bytes
         /\ Len(stdout[k1].bytes) = 2
         /\ Len(stdout[k2].bytes) = 2

-----------------------------------------------------------------------------
(* C10 *)

\* the metrics variant has computed its cell (for the current glyph)
CellComputed ==
    /\ variant = "metrics"
    /\ \/ pc \in {"load", "emit"}
       \/ pc = "loop" /\ i > FirstChar
       \/ Succeeded

\* C10 as stated: in the metrics variant the cell height is
\* floor(H * 3 / 4) + 1 for a negative reducedHeight and H - reducedHeight
\* otherwise; it is the same for every glyph, it is the number of rows
\* written per glyph and the Height of the descriptor, also when it is zero
\* or negative.
C10_Original ==
    CellComputed =>
        LET h == IF conf.ReduceHeight < 0 THEN ((font.H * 3) \div 4) + 1
                 ELSE font.H - conf.ReduceHeight
        IN  /\ height = h
            /\ heightP = h
            /\ \A k \in Lines : stdout[k].t = "glyph" => RowsAfter(k) = h
            /\ Succeeded => stdout[Len(stdout)].h = h

\* C10 amended: the cell height is H * 3 / 4 + 1 in Go's integer division,
\* which truncates toward zero (floor(H * 3 / 4) + 1 for H >= 0), for a
\* negative reducedHeight and H - reducedHeight otherwise; it is the same
\* for every glyph and it is the Height of the descriptor, also when it is
\* zero or negative; the number of rows written per glyph is that height,
\* or 0 when it is negative.
C10_CellHeight ==
    CellComputed =>
        LET h == ExpectedHeight
        IN  /\ height = h
            /\ heightP = h
            /\ \A k \in Lines :
                 stdout[k].t = "glyph" =>
                    RowsAfter(k) = (IF h >= 0 THEN h ELSE 0)
            /\ Succeeded => stdout[Len(stdout)].h = h

\* a complete default run (reducedHeight -1) over a font of metric height
\* 3: 3 * 3 / 4 + 1 = 3 rows per glyph, Height 3
C10_Witness ==
    /\ variant = "metrics"
    /\ Succeeded
    /\ conf.ReduceHeight = -1
    /\ font.H = 3
    /\ conf.Width > 0
    /\ stdout[Len(stdout)].h = 3
    /\ RowsAfter(2) = 3

====
